---------------------------- MODULE Spec2Model ----------------------------
(***************************************************************************)
(* Ghost Rover EVK RTCM relay: the byte relay from the ZED-F9P UART to the *)
(* HC-12 radio, its frame synchronizer, the indicator (LED) task and the   *)
(* serial console, as two sketches of the repository implement them:       *)
(*                                                                         *)
(*   "v3_0_10"  src/DougFoster_Ghost_Rover_EVK_RTCM_relay.ino, lines 1-827 *)
(*              (buffer-and-inspect synchronizer, checkSerialUSB,          *)
(*              ESP32-C6: one core, char is unsigned)                      *)
(*   "v0_1_2"   src/unnamed/part_000                                       *)
(*              (byte-count heuristic synchronizer, checkSerialMonitor,    *)
(*              ESP32-S3: two cores, char is unsigned)                     *)
(*                                                                         *)
(* Bytes and characters are the integers 0..255.  FreeRTOS calls           *)
(* (xTaskCreate, vTaskSuspend, vTaskResume, vTaskDelay) are modelled by    *)
(* their documented effect on the one task the sketches create.            *)
(***************************************************************************)
EXTENDS Integers, Sequences, FiniteSets, TLC

VARIABLES
    sketch,         \* which sketch is flashed
    stream,         \* the bytes the ZED-F9P sends, in order (environment)
    arr0,           \* how many of them have arrived in the input UART
    rd0,            \* how many of them the sketch has taken out of the UART
    tx1,            \* every byte written to the output link (HC-12), in order
    preamble,       \* static uint8_t preamble       (v3_0_10 checkRTCMtoRadio)
    preambleCount,  \* static uint8_t preambleCount  (v0_1_2 checkRTCMtoRadio)
    byteCount,      \* static uint16_t byteCount
    sentCount,      \* static uint32_t sentCount     (v0_1_2)
    rtcmSentence,   \* char rtcmSentence[300]
    msg_type,       \* last value of msg_type printed by the debug branch
    led,            \* LED_RADIO pin, 0 = LOW, 1 = HIGH
    taskPc,         \* next statement of radioRtcmLEDtask
    taskSusp,       \* the task is in the FreeRTOS Suspended state
    testLEDr, testRad, debugRad, reset,
    command,        \* char command[11] (v3_0_10), monitorCommand[11] (v0_1_2)
    posn,           \* posn (v3_0_10), posnMon (v0_1_2)
    radioCommand,   \* char radioCommand[11] (used by v0_1_2)
    posnRad,        \* static uint8_t posnRad (v0_1_2)
    blinkI,         \* loop counter i of the 5-cycle indicator test
    mode,           \* where the loop task is: "loop" or inside a modal loop
    loopPc,         \* next call of loop(): "usb" or "rtcm"
    hc12Set,        \* HC12_SET pin, 1 = transparent mode, 0 = command mode
    usbRx,          \* characters waiting in the console UART
    usbWire,        \* characters typed that have not reached the UART yet
    typed,          \* number of lines the operator has typed (environment)
    lines,          \* the lines typed, in order (environment)
    eol,            \* the line ending the operator's terminal sends
    usbLog,         \* messages printed on the console, in order
    pulseReqs,      \* number of updateLED('2') calls so far
    effReqs,        \* number of those that found the task suspended
    ledCycles,      \* number of times the task has switched the LED on
    complete,       \* number of frame-complete events so far
    crashed,        \* an out-of-bounds write has brought the device down
    diagEver,       \* a modal sub-loop or a commanded restart has happened
    tbuf            \* argument buffer of rtcm3GetMessageType (SpecType)

relayVars == <<stream, arr0, rd0, tx1, preamble, preambleCount, byteCount,
               sentCount, rtcmSentence, msg_type, complete>>
ledVars   == <<led, taskPc, taskSusp, pulseReqs, effReqs, ledCycles>>
flagVars  == <<testLEDr, testRad, debugRad, reset>>
conVars   == <<command, posn, radioCommand, posnRad, blinkI, hc12Set, usbLog>>
envVars   == <<usbRx, usbWire, typed, lines, eol>>
vars == <<sketch, relayVars, ledVars, flagVars, conVars, envVars, mode,
          loopPc, crashed, diagEver, tbuf>>

---------------------------------------------------------------------------
(* Bounds of the model. *)

\* Longest short input stream (every byte sequence up to this length is fed).
MaxStream == 6
\* The long stream is one preamble followed by RTCM_SIZE - 1 + LongExtra bytes.
LongExtra == 3
\* Most bytes that wait unread in the input UART.
MaxPending == 2
\* Lines the operator types while the input link is silent.
MaxLines == 3
\* Lines the operator types while a stream is being relayed; inside a modal
\* test one more line is allowed, so that the test can be left.
MaxBusyLines == 1
\* Bytes of the v0_1_0 stream beyond two full counts of maxCount.
PulseExtra == 1

(* Program constants. *)
PREAMBLE       == 211       \* 0xd3
SYNC_THRESHOLD == 3         \* ((int)serial1Char) < 3
RTCM_SIZE      == 300       \* char rtcmSentence[300]
UINT16         == 65536     \* uint16_t byteCount wraps here
UINT8          == 256       \* uint8_t posnRad wraps here
COMMAND_SIZE   == 11        \* char command[11]
NUM_COMMANDS   == 4
BLINKS         == 5         \* for (size_t i = 0; i < 5; i++)
NO_MATCH       == 100       \* size_t whichCommand = 100
maxCount       == 500       \* const uint16_t maxCount = 500 (v0_1_0)

\* Characters.
CH_LF    == 10      \* '\n'
CH_CR    == 13      \* '\r'
EXIT_TEST == 33     \* '!'
CH_QUERY == 63      \* "?"

Sketches == {"v3_0_10", "v0_1_2"}

\* The ESP32-C6 of v3_0_10 has one core: the indicator task (priority 2)
\* preempts the loop task (priority 1) whenever it is ready.
SingleCore == sketch = "v3_0_10"

---------------------------------------------------------------------------
(* Input streams. *)

ByteAlphabet == {PREAMBLE, SYNC_THRESHOLD - 1, SYNC_THRESHOLD}

ShortStreams == UNION {[1..n -> ByteAlphabet] : n \in 0..MaxStream}

LongStream ==
    [i \in 1..(RTCM_SIZE - 1 + LongExtra) + 1 |->
        IF i = 1 THEN PREAMBLE ELSE SYNC_THRESHOLD]

Streams == ShortStreams \cup {LongStream}

IsPrefix(s, t) == Len(s) <= Len(t) /\ SubSeq(t, 1, Len(s)) = s

---------------------------------------------------------------------------
(* rtcm3GetMessageType and the bit operations it uses. *)

RECURSIVE BitOr(_, _)
BitOr(a, b) ==
    IF a = 0 THEN b
    ELSE IF b = 0 THEN a
    ELSE (IF a % 2 = 1 \/ b % 2 = 1 THEN 1 ELSE 0)
         + 2 * BitOr(a \div 2, b \div 2)

ShiftLeft4(x)  == x * 16
ShiftRight4(x) == x \div 16

\* A faulty variant: the low four bits are taken from byte 3, not byte 4.
rtcm3GetMessageType_b3twice(buffer) ==
    IF buffer[0] # PREAMBLE THEN 0
    ELSE BitOr(ShiftLeft4(buffer[3]), ShiftRight4(buffer[3])) % UINT16

rtcm3GetMessageType(buffer) ==
    IF buffer[0] # PREAMBLE THEN 0
    ELSE BitOr(ShiftLeft4(buffer[3]), ShiftRight4(buffer[4])) % UINT16

ZeroSentence == [i \in 0..(RTCM_SIZE - 1) |-> 0]
ZeroCommand  == [i \in 0..(COMMAND_SIZE - 1) |-> 0]
ZeroType     == [i \in 0..4 |-> 0]

---------------------------------------------------------------------------
(* The indicator task and updateLED. *)

\* The task is ready to run: not suspended and not blocked in vTaskDelay.
TaskReady == ~taskSusp /\ taskPc # "delay"

\* The loop task runs: on one core only while the indicator task is not ready.
LoopRuns == SingleCore => ~TaskReady

\* A faulty variant: resuming a task that is not suspended starts its cycle
\* again.
vTaskResume_restarts ==
    /\ taskSusp' = FALSE
    /\ taskPc' = IF taskSusp THEN taskPc ELSE "high"
    /\ effReqs' = effReqs + (IF taskSusp THEN 1 ELSE 0)
    /\ UNCHANGED <<led, ledCycles>>

\* vTaskResume(radioRtcmLEDtaskHandle): a suspended task becomes ready where
\* it stopped; a task that is not suspended is left alone.
vTaskResume ==
    /\ taskSusp' = FALSE
    /\ effReqs' = effReqs + (IF taskSusp THEN 1 ELSE 0)
    /\ UNCHANGED <<led, taskPc, ledCycles>>

updateLED(ledR) ==
    CASE ledR = "0" -> /\ led' = 0
                       /\ UNCHANGED <<taskPc, taskSusp, pulseReqs, effReqs, ledCycles>>
      [] ledR = "1" -> /\ led' = 1
                       /\ UNCHANGED <<taskPc, taskSusp, pulseReqs, effReqs, ledCycles>>
      [] ledR = "2" -> /\ vTaskResume
                       /\ pulseReqs' = pulseReqs + 1

\* digitalWrite(LED_RADIO, HIGH)
TaskHigh ==
    /\ ~taskSusp /\ taskPc = "high"
    /\ led' = 1
    /\ ledCycles' = ledCycles + 1
    /\ taskPc' = "delay"
    /\ UNCHANGED <<taskSusp, pulseReqs, effReqs>>

\* vTaskDelay(LED_TIME_FLASH_ON) returns: the time has passed, or the task
\* was suspended inside the delay and has been resumed.
TaskDelayDone ==
    /\ ~taskSusp /\ taskPc = "delay"
    /\ taskPc' = "low"
    /\ UNCHANGED <<led, taskSusp, pulseReqs, effReqs, ledCycles>>

\* digitalWrite(LED_RADIO, LOW)
TaskLow ==
    /\ ~taskSusp /\ taskPc = "low"
    /\ led' = 0
    /\ taskPc' = "suspend"
    /\ UNCHANGED <<taskSusp, pulseReqs, effReqs, ledCycles>>

\* vTaskSuspend(NULL)
TaskSuspend ==
    /\ ~taskSusp /\ taskPc = "suspend"
    /\ taskSusp' = TRUE
    /\ taskPc' = "high"
    /\ UNCHANGED <<led, pulseReqs, effReqs, ledCycles>>

radioRtcmLEDtask ==
    /\ TaskHigh \/ TaskDelayDone \/ TaskLow \/ TaskSuspend
    /\ UNCHANGED <<sketch, relayVars, flagVars, conVars, envVars, mode,
                   loopPc, crashed, diagEver, tbuf>>

\* Where startTasks leaves the task.  On one core xTaskCreate switches to the
\* new task (priority 2) at once; it sets the LED on and blocks in vTaskDelay,
\* and vTaskSuspend then suspends it there.  On two cores the task may also be
\* suspended before its first statement.
BootTaskPcs(sk) == IF sk = "v3_0_10" THEN {"delay"} ELSE {"high", "delay"}

---------------------------------------------------------------------------
(* setup(): the state every start of the device produces. *)

\* A faulty variant: the restart leaves debugRad as it was.
BootProgram_keepsDebug ==
    /\ preamble' = 0
    /\ preambleCount' = 0
    /\ byteCount' = 0
    /\ sentCount' = 0
    /\ rtcmSentence' = ZeroSentence
    /\ testLEDr' = FALSE /\ testRad' = FALSE
    /\ debugRad' = debugRad /\ reset' = FALSE
    /\ command' = ZeroCommand
    /\ posn' = 0
    /\ radioCommand' = ZeroCommand
    /\ posnRad' = 0
    /\ blinkI' = 0
    /\ hc12Set' = 1
    /\ led' = 0
    /\ taskPc' \in BootTaskPcs(sketch)
    /\ taskSusp' = TRUE
    /\ mode' = "loop"
    /\ loopPc' = "usb"
    /\ rd0' = arr0
    /\ usbRx' = <<>>

\* initVars, initPins, startTasks, startLoop.  Bytes waiting in the UART
\* drivers are lost when the drivers are installed again.
BootProgram ==
    /\ preamble' = 0
    /\ preambleCount' = 0
    /\ byteCount' = 0
    /\ sentCount' = 0
    /\ rtcmSentence' = ZeroSentence
    /\ testLEDr' = FALSE /\ testRad' = FALSE
    /\ debugRad' = FALSE /\ reset' = FALSE
    /\ command' = ZeroCommand
    /\ posn' = 0
    /\ radioCommand' = ZeroCommand
    /\ posnRad' = 0
    /\ blinkI' = 0
    /\ hc12Set' = 1
    /\ led' = 0
    /\ taskPc' \in BootTaskPcs(sketch)
    /\ taskSusp' = TRUE
    /\ mode' = "loop"
    /\ loopPc' = "usb"
    /\ rd0' = arr0
    /\ usbRx' = <<>>

---------------------------------------------------------------------------
(* The input link. *)

Serial0Available == arr0 - rd0 > 0

\* A faulty variant: the read returns the newest byte waiting, not the
\* oldest.
Serial0Byte_newest == stream[arr0]

\* Serial0.read(): the oldest byte waiting.
Serial0Byte == stream[rd0 + 1]

\* One more byte of the stream reaches the input UART.  What the loop sees
\* is the bytes present when it polls the link, so an arrival is placed
\* where the loop is about to poll (or is inside a modal test).
Arrive0 ==
    /\ arr0 < Len(stream)
    /\ arr0 - rd0 < MaxPending
    /\ mode = "loop" => loopPc = "rtcm"
    /\ arr0' = arr0 + 1
    /\ UNCHANGED <<sketch, stream, rd0, tx1, preamble, preambleCount, byteCount,
                   sentCount, rtcmSentence, msg_type, complete, ledVars,
                   flagVars, conVars, envVars, mode, loopPc, crashed,
                   diagEver, tbuf>>

---------------------------------------------------------------------------
(* checkRTCMtoRadio, v3_0_10: buffer-and-inspect synchronizer. *)

\* if (serialChar == 0xd3) preamble = (preamble == 0) ? 1 : 2;
NextPreamble(p, c) ==
    IF c = PREAMBLE THEN (IF p = 0 THEN 1 ELSE 2) ELSE p

\* What the write rtcmSentence[byteCount] = serialChar can do: inside the
\* array it stores the byte; outside it the behaviour is undefined, and the
\* build either goes on (the byte lands in other memory) or goes down.
WriteOutcomes(bc) ==
    IF bc < RTCM_SIZE THEN {"stored"} ELSE {"elsewhere", "panic"}

\* A faulty variant: the relay step also runs while a modal test is active.
RelayInLoop_anyMode == LoopRuns

\* loop() has reached checkRTCMtoRadio: no modal test holds the loop task.
RelayInLoop == mode = "loop" /\ loopPc = "rtcm" /\ LoopRuns

\* A faulty variant: the relay step sleeps after forwarding the byte.
checkRTCMtoRadio_delays ==
    /\ sketch = "v3_0_10" /\ RelayInLoop
    /\ Serial0Available
    /\ rd0' = rd0 + 1
    /\ tx1' = Append(tx1, Serial0Byte)
    /\ mode' = "relayDelay"
    /\ UNCHANGED <<sketch, stream, arr0, preamble, preambleCount, byteCount,
                   sentCount, rtcmSentence, msg_type, complete, ledVars,
                   flagVars, conVars, envVars, loopPc, crashed, diagEver, tbuf>>

\* A faulty variant: the frame-complete branch leaves out the memset of
\* rtcmSentence.
checkRTCMtoRadio_noClear ==
    /\ sketch = "v3_0_10" /\ RelayInLoop
    /\ Serial0Available
    /\ LET c  == Serial0Byte
           p1 == NextPreamble(preamble, c)
       IN  \E outcome \in (IF p1 = 1 THEN WriteOutcomes(byteCount) ELSE {"none"}) :
             /\ tx1' = Append(tx1, c)
             /\ IF outcome = "panic"
                THEN /\ BootProgram
                     /\ crashed' = TRUE
                     /\ UNCHANGED <<msg_type, complete, pulseReqs, effReqs,
                                    ledCycles, arr0, usbLog, usbWire, typed, lines, eol>>
                ELSE /\ rd0' = rd0 + 1
                     /\ loopPc' = "usb"
                     /\ UNCHANGED <<arr0, preambleCount, sentCount, flagVars,
                                    conVars, envVars, mode, crashed>>
                     /\ CASE p1 = 1 ->
                               /\ preamble' = 1
                               /\ rtcmSentence' =
                                    IF outcome = "stored"
                                    THEN [rtcmSentence EXCEPT ![byteCount] = c]
                                    ELSE rtcmSentence
                               /\ byteCount' = (byteCount + 1) % UINT16
                               /\ UNCHANGED <<msg_type, complete, ledVars>>
                          [] p1 = 2 ->
                               /\ msg_type' = IF debugRad
                                              THEN rtcm3GetMessageType(rtcmSentence)
                                              ELSE msg_type
                               /\ updateLED("2")
                               /\ complete' = complete + 1
                               /\ byteCount' = 0
                               /\ preamble' = 0
                               /\ rtcmSentence' = rtcmSentence
                          [] OTHER ->
                               UNCHANGED <<preamble, byteCount, rtcmSentence,
                                           msg_type, complete, ledVars>>
    /\ UNCHANGED <<sketch, stream, diagEver, tbuf>>

checkRTCMtoRadio ==
    /\ sketch = "v3_0_10" /\ RelayInLoop
    /\ Serial0Available
    /\ LET c  == Serial0Byte
           p1 == NextPreamble(preamble, c)
       IN  \E outcome \in (IF p1 = 1 THEN WriteOutcomes(byteCount) ELSE {"none"}) :
             /\ tx1' = Append(tx1, c)
             /\ IF outcome = "panic"
                THEN /\ BootProgram
                     /\ crashed' = TRUE
                     /\ UNCHANGED <<msg_type, complete, pulseReqs, effReqs,
                                    ledCycles, arr0, usbLog, usbWire, typed, lines, eol>>
                ELSE /\ rd0' = rd0 + 1
                     /\ loopPc' = "usb"
                     /\ UNCHANGED <<arr0, preambleCount, sentCount, flagVars,
                                    conVars, envVars, mode, crashed>>
                     /\ CASE p1 = 1 ->
                               /\ preamble' = 1
                               /\ rtcmSentence' =
                                    IF outcome = "stored"
                                    THEN [rtcmSentence EXCEPT ![byteCount] = c]
                                    ELSE rtcmSentence
                               /\ byteCount' = (byteCount + 1) % UINT16
                               /\ UNCHANGED <<msg_type, complete, ledVars>>
                          [] p1 = 2 ->
                               /\ msg_type' = IF debugRad
                                              THEN rtcm3GetMessageType(rtcmSentence)
                                              ELSE msg_type
                               /\ updateLED("2")
                               /\ complete' = complete + 1
                               /\ byteCount' = 0
                               /\ preamble' = 0
                               /\ rtcmSentence' = ZeroSentence
                          [] OTHER ->
                               UNCHANGED <<preamble, byteCount, rtcmSentence,
                                           msg_type, complete, ledVars>>
    /\ UNCHANGED <<sketch, stream, diagEver, tbuf>>

---------------------------------------------------------------------------
(* checkRTCMtoRadio, v0_1_2: byte-count heuristic synchronizer. *)

\* A faulty variant: any byte < 3 completes a frame, preamble or not.
HeurPreambleCount_anyLow(pc, c) ==
    IF pc = 0 /\ c = PREAMBLE THEN 1
    ELSE IF c < SYNC_THRESHOLD THEN 2
    ELSE 0

\* preambleCount after byte c: 1 on a first 0xd3, 2 on a byte < 3 right after
\* it, 0 otherwise.
HeurPreambleCount(pc, c) ==
    IF pc = 0 /\ c = PREAMBLE THEN 1
    ELSE IF pc = 1 /\ c < SYNC_THRESHOLD THEN 2
    ELSE 0

checkRTCMtoRadio_heuristic ==
    /\ sketch = "v0_1_2" /\ RelayInLoop
    /\ Serial0Available
    /\ LET c   == Serial0Byte
           pc1 == HeurPreambleCount(preambleCount, c)
       IN  /\ rd0' = rd0 + 1
           /\ tx1' = Append(tx1, c)
           /\ IF pc1 = 2
              THEN /\ sentCount' = sentCount + 1
                   /\ complete' = complete + 1
                   /\ updateLED("2")
                   /\ byteCount' = 0
                   /\ preambleCount' = 0
              ELSE /\ byteCount' = (byteCount + 1) % UINT16
                   /\ preambleCount' = pc1
                   /\ UNCHANGED <<sentCount, complete, ledVars>>
    /\ loopPc' = "usb"
    /\ UNCHANGED <<sketch, stream, arr0, preamble, rtcmSentence, msg_type,
                   flagVars, conVars, envVars, mode, crashed, diagEver, tbuf>>

\* A faulty variant: a step that finds no byte drops the frame in progress.
checkRTCMtoRadio_idle_resets ==
    /\ RelayInLoop
    /\ ~Serial0Available
    /\ preamble' = 0 /\ preambleCount' = 0 /\ byteCount' = 0
    /\ loopPc' = "usb"
    /\ UNCHANGED <<sketch, stream, arr0, rd0, tx1, sentCount, rtcmSentence,
                   msg_type, complete, ledVars, flagVars, conVars, envVars,
                   mode, crashed, diagEver, tbuf>>

\* Either sketch: no byte is waiting on the input link.
checkRTCMtoRadio_idle ==
    /\ RelayInLoop
    /\ ~Serial0Available
    /\ loopPc' = "usb"
    /\ UNCHANGED <<sketch, relayVars, ledVars, flagVars, conVars, envVars,
                   mode, crashed, diagEver, tbuf>>

---------------------------------------------------------------------------
(* The console with nothing to read. *)

ConsoleInLoop == mode = "loop" /\ loopPc = "usb" /\ LoopRuns

\* checkSerialUSB / checkSerialMonitor: Serial.available() is 0.
checkSerialUSB_idle ==
    /\ ConsoleInLoop
    /\ usbRx = <<>>
    /\ loopPc' = "rtcm"
    /\ UNCHANGED <<sketch, relayVars, ledVars, flagVars, conVars, envVars,
                   mode, crashed, diagEver, tbuf>>

---------------------------------------------------------------------------
(* The console: strings, the command table, the operator. *)

\* const char* COMMANDS[] = {"testLEDr", "testRad", "debugRad", "reset"}
CmdTestLEDr == <<116, 101, 115, 116, 76, 69, 68, 114>>
CmdTestRad  == <<116, 101, 115, 116, 82, 97, 100>>
CmdDebugRad == <<100, 101, 98, 117, 103, 82, 97, 100>>
CmdReset    == <<114, 101, 115, 101, 116>>
COMMANDS    == <<CmdTestLEDr, CmdTestRad, CmdDebugRad, CmdReset>>

\* The C string held in a buffer: the characters before the first NUL.  A
\* buffer with no NUL is read to its end.
RECURSIVE CStrFrom(_, _)
CStrFrom(buf, i) ==
    IF i >= COMMAND_SIZE \/ buf[i] = 0 THEN <<>>
    ELSE <<buf[i]>> \o CStrFrom(buf, i + 1)

CStr(buf) == CStrFrom(buf, 0)

\* strstr(s, "c") != NULL
HasChar(s, ch) == \E i \in 1..Len(s) : s[i] = ch

\* toupper
ToUpper(c) == IF c \in 97..122 THEN c - 32 ELSE c

\* The index of the command equal to tok (strcmp(...) == 0), or NO_MATCH.
MatchCommand(tok) ==
    IF \E i \in 0..(NUM_COMMANDS - 1) : COMMANDS[i + 1] = tok
    THEN CHOOSE i \in 0..(NUM_COMMANDS - 1) : COMMANDS[i + 1] = tok
    ELSE NO_MATCH

Flags  == [testLEDr |-> testLEDr, testRad |-> testRad,
           debugRad |-> debugRad, reset |-> reset]
AllOff == [testLEDr |-> FALSE, testRad |-> FALSE,
           debugRad |-> FALSE, reset |-> FALSE]

\* flag = (flag == true) ? false : true, for the flag of command i.
Toggle(f, i) ==
    CASE i = 0 -> [f EXCEPT !.testLEDr = ~@]
      [] i = 1 -> [f EXCEPT !.testRad = ~@]
      [] i = 2 -> [f EXCEPT !.debugRad = ~@]
      [] i = 3 -> [f EXCEPT !.reset = ~@]

FlagOf(f, i) ==
    CASE i = 0 -> f.testLEDr
      [] i = 1 -> f.testRad
      [] i = 2 -> f.debugRad
      [] i = 3 -> f.reset

\* What the console prints, one entry per message: <<kind, text>>.
Msg(kind)        == <<kind, <<>>>>
MsgToggle(f, i)  == <<IF FlagOf(f, i) THEN "enabled" ELSE "disabled", COMMANDS[i + 1]>>
MsgInvalid(tok)  == <<"invalid", tok>>
\* Serial.println("testLEDr disabled."): the text of the toggle message.
MsgDisabled(i)   == <<"disabled", COMMANDS[i + 1]>>

\* A write through buf[p]: inside the array it stores the character; outside
\* it the behaviour is undefined.
StoreOutcomes(p) ==
    IF p < COMMAND_SIZE THEN {"stored"} ELSE {"elsewhere", "panic"}

Store(buf, p, c, outcome) ==
    IF outcome = "stored" THEN [buf EXCEPT ![p] = c] ELSE buf

\* Serial.read() whose value is dropped: takes the next character if one has
\* arrived.
Discard(rx) == IF rx = <<>> THEN rx ELSE Tail(rx)

\* delay(ms) of 200 ms or more returns: the indicator task (100 ms on) has
\* finished whatever it was doing.
DelayOver == taskSusp

\* The lines the operator may type, by what the console is doing.
\* A line one character longer than the command buffer.
LongLine == [i \in 1..(COMMAND_SIZE + 1) |-> 120]

LoopMenu == {CmdTestLEDr, CmdTestRad, CmdDebugRad, CmdReset,
             <<EXIT_TEST>>, <<CH_QUERY>>, <<120>>, <<120, EXIT_TEST>>, <<>>,
             LongLine}
\* Inside the indicator test the operator may also type "1!" on one line.
LedMenu  == {<<48>>, <<49>>, <<50>>, <<EXIT_TEST>>, <<120>>, CmdTestLEDr,
             <<49, EXIT_TEST>>}
RadMenu  == {<<97, 116>>, <<65>>, <<EXIT_TEST>>, <<>>}

Menu ==
    IF mode \in {"led", "ledBlink", "ledDelay"} THEN LedMenu
    ELSE IF mode \in {"radEnter", "rad", "radSent"} THEN RadMenu
    ELSE LoopMenu

\* The operator types a line; the terminal adds its line ending.
TypeLine ==
    /\ typed < (IF stream = <<>> THEN MaxLines
                ELSE IF mode = "loop" THEN MaxBusyLines
                ELSE MaxBusyLines + 1)
    /\ usbWire = <<>> /\ usbRx = <<>>
    /\ mode = "loop" => loopPc = "usb"
    /\ \E l \in Menu : usbWire' = l \o eol /\ lines' = Append(lines, l)
    /\ typed' = typed + 1
    /\ UNCHANGED <<sketch, relayVars, ledVars, flagVars, conVars, usbRx, eol,
                   mode, loopPc, crashed, diagEver, tbuf>>

\* One typed character reaches the console UART, placed where the program
\* is about to poll the console.
ArriveUsb ==
    /\ usbWire # <<>>
    /\ mode = "loop" => loopPc = "usb"
    /\ usbRx' = Append(usbRx, Head(usbWire))
    /\ usbWire' = Tail(usbWire)
    /\ UNCHANGED <<sketch, relayVars, ledVars, flagVars, conVars, typed, lines, eol,
                   mode, loopPc, crashed, diagEver, tbuf>>

---------------------------------------------------------------------------
(* checkSerialUSB, v3_0_10. *)

\* A faulty variant: the escape leaves debugRad as it is.
checkSerialUSB_escapeKeeps(tok, f) ==
    IF HasChar(tok, CH_QUERY)
    THEN [flags |-> f, msgs |-> <<Msg("list")>>, which |-> NO_MATCH]
    ELSE IF HasChar(tok, EXIT_TEST)
    THEN [flags |-> [AllOff EXCEPT !.debugRad = f.debugRad],
          msgs |-> <<Msg("allOff")>>, which |-> NO_MATCH]
    ELSE LET w == MatchCommand(tok)
         IN  IF w # NO_MATCH
             THEN [flags |-> Toggle(f, w),
                   msgs  |-> <<MsgToggle(Toggle(f, w), w)>> \o
                             (IF w = 3 THEN <<Msg("restarting")>> ELSE <<>>),
                   which |-> w]
             ELSE [flags |-> f,
                   msgs  |-> IF Len(tok) > 0 THEN <<MsgInvalid(tok)>> ELSE <<>>,
                   which |-> NO_MATCH]

\* The branch taken on a line end with posn > 0: the flags it leaves, the
\* messages it prints and the command it matched.
DispatchUSB(tok, f) ==
    IF HasChar(tok, CH_QUERY)
    THEN [flags |-> f, msgs |-> <<Msg("list")>>, which |-> NO_MATCH]
    ELSE IF HasChar(tok, EXIT_TEST)
    THEN [flags |-> AllOff, msgs |-> <<Msg("allOff")>>, which |-> NO_MATCH]
    ELSE LET w == MatchCommand(tok)
         IN  IF w # NO_MATCH
             THEN [flags |-> Toggle(f, w),
                   msgs  |-> <<MsgToggle(Toggle(f, w), w)>> \o
                             (IF w = 3 THEN <<Msg("restarting")>> ELSE <<>>),
                   which |-> w]
             ELSE [flags |-> f,
                   msgs  |-> IF Len(tok) > 0 THEN <<MsgInvalid(tok)>> ELSE <<>>,
                   which |-> NO_MATCH]

SetFlags(f) ==
    /\ testLEDr' = f.testLEDr /\ testRad' = f.testRad
    /\ debugRad' = f.debugRad /\ reset' = f.reset

UsbInLoop == sketch = "v3_0_10" /\ ConsoleInLoop /\ usbRx # <<>>

\* An ordinary character: command[posn] = serialChar; posn++.
checkSerialUSB_char ==
    /\ UsbInLoop
    /\ Head(usbRx) \notin {CH_LF, CH_CR}
    /\ \E outcome \in StoreOutcomes(posn) :
         IF outcome = "panic"
         THEN /\ BootProgram
              /\ crashed' = TRUE
              /\ UNCHANGED <<arr0, tx1, msg_type, complete, pulseReqs, effReqs,
                             ledCycles, usbLog, usbWire, typed, lines, eol>>
         ELSE /\ command' = Store(command, posn, Head(usbRx), outcome)
              /\ posn' = posn + 1
              /\ usbRx' = Tail(usbRx)
              /\ loopPc' = "rtcm"
              /\ UNCHANGED <<relayVars, ledVars, flagVars, radioCommand, posnRad,
                             blinkI, hc12Set, usbLog, usbWire, typed, lines, eol,
                             mode, crashed>>
    /\ UNCHANGED <<sketch, stream, diagEver, tbuf>>

\* A line end with nothing buffered.
checkSerialUSB_blank ==
    /\ UsbInLoop
    /\ Head(usbRx) \in {CH_LF, CH_CR}
    /\ posn = 0
    /\ usbRx' = Tail(usbRx)
    /\ command' = ZeroCommand
    /\ posn' = 0
    /\ loopPc' = "rtcm"
    /\ UNCHANGED <<sketch, relayVars, ledVars, flagVars, radioCommand, posnRad,
                   blinkI, hc12Set, usbLog, usbWire, typed, lines, eol, mode,
                   crashed, diagEver, tbuf>>

\* A line end with a token buffered: list, escape, toggle, or error; then
\* restart, a modal test, or back to the loop.
checkSerialUSB ==
    /\ UsbInLoop
    /\ Head(usbRx) \in {CH_LF, CH_CR}
    /\ posn > 0
    /\ LET r == DispatchUSB(CStr(command), Flags)
       IN  IF r.which = 3
           THEN \* esp_restart()
                /\ BootProgram
                /\ usbLog' = usbLog \o r.msgs
                /\ UNCHANGED <<arr0, tx1, msg_type, complete, pulseReqs,
                               effReqs, ledCycles, diagEver>>
           ELSE /\ SetFlags(r.flags)
                /\ usbRx' = Tail(usbRx)
                /\ UNCHANGED <<stream, arr0, rd0, preamble, preambleCount,
                               byteCount, sentCount, rtcmSentence, msg_type,
                               complete, ledVars, radioCommand, posnRad, blinkI>>
                /\ IF r.which # NO_MATCH /\ r.flags.testRad
                   THEN \* HC12_SET low, Serial1.write('\n'), delay(200)
                        /\ hc12Set' = 0
                        /\ tx1' = Append(tx1, CH_LF)
                        /\ usbLog' = usbLog \o r.msgs
                        /\ mode' = "radEnter"
                        /\ diagEver' = TRUE
                        /\ UNCHANGED <<command, posn, loopPc>>
                   ELSE IF r.which # NO_MATCH /\ r.flags.testLEDr
                   THEN /\ usbLog' = usbLog \o r.msgs \o <<Msg("ledHelp")>>
                        /\ mode' = "led"
                        /\ diagEver' = TRUE
                        /\ UNCHANGED <<command, posn, loopPc, hc12Set, tx1>>
                   ELSE /\ usbLog' = usbLog \o r.msgs
                        /\ posn' = 0
                        /\ command' = ZeroCommand
                        /\ loopPc' = "rtcm"
                        /\ UNCHANGED <<mode, hc12Set, tx1, diagEver>>
    /\ UNCHANGED <<sketch, stream, usbWire, typed, lines, eol, crashed, tbuf>>

\* The radio test after delay(200): flush, instructions, empty buffer.
testRad_entered ==
    /\ sketch = "v3_0_10" /\ mode = "radEnter" /\ DelayOver
    /\ usbLog' = Append(usbLog, Msg("radHelp"))
    /\ command' = ZeroCommand
    /\ posn' = 0
    /\ mode' = "rad"
    /\ UNCHANGED <<sketch, relayVars, ledVars, flagVars, radioCommand, posnRad,
                   blinkI, hc12Set, envVars, loopPc, crashed, diagEver, tbuf>>

\* A faulty variant of the radio test's exit: `!` leaves the test without
\* putting HC12_SET back to HIGH.
testRad_char_staysLow ==
    /\ sketch = "v3_0_10" /\ mode = "rad" /\ LoopRuns
    /\ usbRx # <<>> /\ Head(usbRx) = EXIT_TEST
    /\ usbLog' = Append(usbLog, Msg("radOff"))
    /\ usbRx' = Discard(Tail(usbRx))
    /\ testRad' = FALSE
    /\ mode' = "loop"
    /\ loopPc' = "rtcm"
    /\ UNCHANGED <<sketch, relayVars, ledVars, testLEDr, debugRad, reset,
                   command, posn, radioCommand, posnRad, blinkI, hc12Set,
                   usbWire, typed, lines, eol, crashed, diagEver, tbuf>>

\* One character read inside the radio test.
testRad_char ==
    /\ sketch = "v3_0_10" /\ mode = "rad" /\ LoopRuns
    /\ usbRx # <<>>
    /\ LET c == ToUpper(Head(usbRx))
       IN  CASE c = EXIT_TEST ->
                  /\ usbLog' = Append(usbLog, Msg("radOff"))
                  /\ hc12Set' = 1
                  /\ usbRx' = Discard(Tail(usbRx))
                  /\ testRad' = FALSE
                  /\ mode' = "loop"
                  /\ loopPc' = "rtcm"
                  /\ UNCHANGED <<relayVars, ledVars, testLEDr, debugRad, reset,
                                 command, posn, radioCommand, posnRad, blinkI,
                                 crashed>>
             [] c = CH_LF ->
                  /\ tx1' = tx1 \o CStr(command)
                  /\ usbRx' = Tail(usbRx)
                  /\ mode' = "radSent"
                  /\ UNCHANGED <<stream, arr0, rd0, preamble, preambleCount,
                                 byteCount, sentCount, rtcmSentence, msg_type,
                                 complete, ledVars, flagVars, command, posn,
                                 radioCommand, posnRad, blinkI, hc12Set,
                                 usbLog, loopPc, crashed>>
             [] OTHER ->
                  \E outcome \in StoreOutcomes(posn) :
                    IF outcome = "panic"
                    THEN /\ BootProgram
                         /\ crashed' = TRUE
                         /\ UNCHANGED <<arr0, tx1, msg_type, complete, pulseReqs,
                                        effReqs, ledCycles, usbLog>>
                    ELSE /\ command' = Store(command, posn, c, outcome)
                         /\ posn' = posn + 1
                         /\ usbRx' = Tail(usbRx)
                         /\ UNCHANGED <<relayVars, ledVars, flagVars, hc12Set,
                                        radioCommand, posnRad, blinkI,
                                        usbLog, mode, loopPc, crashed>>
    /\ UNCHANGED <<sketch, stream, usbWire, typed, lines, eol, diagEver, tbuf>>

\* The radio test after delay(200) that follows a command: empty buffer.
testRad_sent ==
    /\ sketch = "v3_0_10" /\ mode = "radSent" /\ DelayOver
    /\ command' = ZeroCommand
    /\ posn' = 0
    /\ mode' = "rad"
    /\ UNCHANGED <<sketch, relayVars, ledVars, flagVars, radioCommand, posnRad,
                   blinkI, hc12Set, usbLog, envVars, loopPc, crashed, diagEver,
                   tbuf>>

---------------------------------------------------------------------------
(* The indicator test, the same code in both sketches. *)

\* A faulty variant of the indicator test's exit: `!` leaves the test
\* without clearing testLEDr.
testLEDr_char_keepsFlag ==
    /\ mode = "led" /\ LoopRuns
    /\ usbRx # <<>> /\ Head(usbRx) = EXIT_TEST
    /\ usbRx' = Discard(Tail(usbRx))
    /\ usbLog' = Append(usbLog, MsgDisabled(0))
    /\ mode' = "loop"
    /\ loopPc' = "rtcm"
    /\ UNCHANGED <<sketch, relayVars, ledVars, flagVars, command, posn,
                   radioCommand, posnRad, blinkI, hc12Set, usbWire, typed,
                   lines, eol, crashed, diagEver, tbuf>>

\* One character read inside the indicator test; the read after it is dropped.
testLEDr_char ==
    /\ mode = "led" /\ LoopRuns
    /\ usbRx # <<>>
    /\ usbRx' = Discard(Tail(usbRx))
    /\ LET c == Head(usbRx)
       IN  CASE c = EXIT_TEST ->
                  /\ usbLog' = Append(usbLog, MsgDisabled(0))
                  /\ testLEDr' = FALSE
                  /\ mode' = "loop"
                  /\ loopPc' = "rtcm"
                  /\ UNCHANGED <<ledVars, testRad, debugRad, reset, blinkI>>
             [] c = 48 ->
                  /\ usbLog' = Append(usbLog, Msg("led0"))
                  /\ updateLED("0")
                  /\ UNCHANGED <<flagVars, blinkI, mode, loopPc>>
             [] c = 49 ->
                  /\ usbLog' = Append(usbLog, Msg("led1"))
                  /\ updateLED("1")
                  /\ UNCHANGED <<flagVars, blinkI, mode, loopPc>>
             [] c = 50 ->
                  /\ usbLog' = Append(usbLog, Msg("led2"))
                  /\ blinkI' = 0
                  /\ mode' = "ledBlink"
                  /\ UNCHANGED <<ledVars, flagVars, loopPc>>
             [] OTHER ->
                  /\ usbLog' = Append(usbLog, Msg("ledHelp"))
                  /\ UNCHANGED <<ledVars, flagVars, blinkI, mode, loopPc>>
    /\ UNCHANGED <<sketch, relayVars, command, posn, radioCommand, posnRad,
                   hc12Set, usbWire, typed, lines, eol, crashed, diagEver, tbuf>>

\* for (i = 0; i < 5; i++) { updateLED('2'); printf("Blink"); delay(1000); }
\* the pulse request of one pass.
testLEDr_blink ==
    /\ mode = "ledBlink" /\ LoopRuns
    /\ updateLED("2")
    /\ usbLog' = Append(usbLog, Msg("blink"))
    /\ mode' = "ledDelay"
    /\ UNCHANGED <<sketch, relayVars, flagVars, command, posn, radioCommand,
                   posnRad, blinkI, hc12Set, envVars, loopPc, crashed,
                   diagEver, tbuf>>

\* A faulty variant: the loop of sub-command 2 stops one pass early.
testLEDr_blinkDone_early ==
    /\ mode = "ledDelay" /\ DelayOver
    /\ blinkI' = blinkI + 1
    /\ mode' = IF blinkI + 1 < BLINKS - 1 THEN "ledBlink" ELSE "led"
    /\ UNCHANGED <<sketch, relayVars, ledVars, flagVars, command, posn,
                   radioCommand, posnRad, hc12Set, usbLog, envVars, loopPc,
                   crashed, diagEver, tbuf>>

\* delay(1000) of one pass returns.
testLEDr_blinkDone ==
    /\ mode = "ledDelay" /\ DelayOver
    /\ blinkI' = blinkI + 1
    /\ mode' = IF blinkI + 1 < BLINKS THEN "ledBlink" ELSE "led"
    /\ UNCHANGED <<sketch, relayVars, ledVars, flagVars, command, posn,
                   radioCommand, posnRad, hc12Set, usbLog, envVars, loopPc,
                   crashed, diagEver, tbuf>>

---------------------------------------------------------------------------
(* checkSerialMonitor, v0_1_2. *)

\* The branch taken on a finished token: escape on a leading '!', a toggle
\* on a match, otherwise the error message and the command list.
DispatchMonitor(tok, f) ==
    IF Len(tok) > 0 /\ tok[1] = EXIT_TEST
    THEN [flags |-> [f EXCEPT !.debugRad = FALSE],
          msgs |-> <<Msg("allOff")>>, which |-> NO_MATCH, return |-> TRUE]
    ELSE LET w == MatchCommand(tok)
         IN  IF w # NO_MATCH
             THEN [flags |-> Toggle(f, w),
                   msgs  |-> <<MsgToggle(Toggle(f, w), w)>>,
                   which |-> w, return |-> FALSE]
             ELSE [flags |-> f,
                   msgs  |-> <<MsgInvalid(tok), Msg("list")>>,
                   which |-> NO_MATCH, return |-> FALSE]

MonInLoop == sketch = "v0_1_2" /\ ConsoleInLoop /\ usbRx # <<>>

\* The token is not finished: monitorCommand[posnMon] = monitorChar.
checkSerialMonitor_char ==
    /\ MonInLoop
    /\ Head(usbRx) # CH_LF /\ posn < COMMAND_SIZE - 1
    /\ command' = [command EXCEPT ![posn] = Head(usbRx)]
    /\ posn' = posn + 1
    /\ usbRx' = Tail(usbRx)
    /\ UNCHANGED <<sketch, relayVars, ledVars, flagVars, radioCommand, posnRad,
                   blinkI, hc12Set, usbLog, usbWire, typed, lines, eol, mode, loopPc,
                   crashed, diagEver, tbuf>>

\* The token is finished, by a newline or by a full buffer.
checkSerialMonitor ==
    /\ MonInLoop
    /\ Head(usbRx) = CH_LF \/ posn >= COMMAND_SIZE - 1
    /\ LET buf == [command EXCEPT ![posn] = 0]
           r   == DispatchMonitor(CStr(buf), Flags)
           cmd == IF r.which # NO_MATCH THEN [buf EXCEPT ![0] = 0] ELSE buf
       IN  IF ~r.return /\ r.flags.reset
           THEN \* esp_restart()
                /\ BootProgram
                /\ usbLog' = usbLog \o r.msgs \o <<Msg("restarting")>>
                /\ UNCHANGED <<arr0, tx1, msg_type, complete, pulseReqs,
                               effReqs, ledCycles, diagEver>>
           ELSE /\ SetFlags(r.flags)
                /\ usbRx' = Tail(usbRx)
                /\ command' = cmd
                /\ posn' = 0
                /\ UNCHANGED <<relayVars, blinkI>>
                /\ IF ~r.return /\ r.flags.testLEDr
                   THEN /\ usbLog' = usbLog \o r.msgs \o <<Msg("ledHelp")>>
                        /\ mode' = "led"
                        /\ diagEver' = TRUE
                        /\ UNCHANGED <<ledVars, radioCommand, posnRad, hc12Set,
                                       loopPc>>
                   ELSE IF ~r.return /\ r.flags.testRad
                   THEN /\ radioCommand' = [radioCommand EXCEPT ![0] = 0]
                        /\ posnRad' = 0
                        /\ hc12Set' = 0
                        /\ updateLED("0")
                        /\ usbLog' = usbLog \o r.msgs \o <<Msg("radHelp")>>
                        /\ mode' = "rad"
                        /\ diagEver' = TRUE
                        /\ UNCHANGED loopPc
                   ELSE /\ usbLog' = usbLog \o r.msgs
                        /\ loopPc' = IF r.return THEN "rtcm" ELSE loopPc
                        /\ UNCHANGED <<ledVars, radioCommand, posnRad, hc12Set,
                                       mode, diagEver>>
    /\ UNCHANGED <<sketch, stream, usbWire, typed, lines, eol, crashed, tbuf>>

\* One character read inside the radio test.
monTestRad_char ==
    /\ sketch = "v0_1_2" /\ mode = "rad" /\ LoopRuns
    /\ usbRx # <<>>
    /\ LET c == ToUpper(Head(usbRx))
       IN  CASE Head(usbRx) = EXIT_TEST ->
                  /\ usbLog' = Append(usbLog, Msg("radOff"))
                  /\ hc12Set' = 1
                  /\ usbRx' = Discard(Tail(usbRx))
                  /\ testRad' = FALSE
                  /\ mode' = "loop"
                  /\ loopPc' = "rtcm"
                  /\ UNCHANGED <<relayVars, ledVars, testLEDr, debugRad, reset,
                                 command, posn, radioCommand, posnRad, blinkI,
                                 crashed>>
             [] c = CH_LF ->
                  /\ tx1' = tx1 \o CStr(radioCommand)
                  /\ usbRx' = Tail(usbRx)
                  /\ mode' = "radSent"
                  /\ UNCHANGED <<stream, arr0, rd0, preamble, preambleCount,
                                 byteCount, sentCount, rtcmSentence, msg_type,
                                 complete, ledVars, flagVars, command, posn,
                                 radioCommand, posnRad, blinkI, hc12Set,
                                 usbLog, loopPc, crashed>>
             [] OTHER ->
                  \E outcome \in StoreOutcomes(posnRad) :
                    IF outcome = "panic"
                    THEN /\ BootProgram
                         /\ crashed' = TRUE
                         /\ UNCHANGED <<arr0, tx1, msg_type, complete, pulseReqs,
                                        effReqs, ledCycles, usbLog>>
                    ELSE /\ radioCommand' = Store(radioCommand, posnRad, c, outcome)
                         /\ posnRad' = (posnRad + 1) % UINT8
                         /\ usbRx' = Tail(usbRx)
                         /\ UNCHANGED <<relayVars, ledVars, flagVars, hc12Set,
                                        command, posn, blinkI, usbLog, mode,
                                        loopPc, crashed>>
    /\ UNCHANGED <<sketch, stream, usbWire, typed, lines, eol, diagEver, tbuf>>

\* The radio test after delay(200) that follows a command.
monTestRad_sent ==
    /\ sketch = "v0_1_2" /\ mode = "radSent" /\ DelayOver
    /\ radioCommand' = [radioCommand EXCEPT ![0] = 0]
    /\ posnRad' = 0
    /\ mode' = "rad"
    /\ UNCHANGED <<sketch, relayVars, ledVars, flagVars, command, posn, blinkI,
                   hc12Set, usbLog, envVars, loopPc, crashed, diagEver, tbuf>>

---------------------------------------------------------------------------
(* The relay and the indicator task, the console left alone. *)

InitProgram ==
    /\ arr0 = 0 /\ rd0 = 0 /\ tx1 = <<>>
    /\ preamble = 0 /\ preambleCount = 0 /\ byteCount = 0 /\ sentCount = 0
    /\ rtcmSentence = ZeroSentence
    /\ msg_type = -1
    /\ led = 0
    /\ taskPc \in BootTaskPcs(sketch)
    /\ taskSusp = TRUE
    /\ testLEDr = FALSE /\ testRad = FALSE /\ debugRad = FALSE /\ reset = FALSE
    /\ command = ZeroCommand /\ posn = 0
    /\ radioCommand = ZeroCommand /\ posnRad = 0 /\ blinkI = 0
    /\ mode = "loop" /\ loopPc = "usb"
    /\ hc12Set = 1
    /\ usbRx = <<>> /\ usbWire = <<>> /\ typed = 0 /\ lines = <<>>
    /\ usbLog = <<>>
    /\ pulseReqs = 0 /\ effReqs = 0 /\ ledCycles = 0 /\ complete = 0
    /\ crashed = FALSE /\ diagEver = FALSE

InitRelay ==
    /\ sketch \in Sketches
    /\ stream \in Streams
    /\ eol = <<CH_LF>>
    /\ tbuf = ZeroType
    /\ InitProgram

NextRelay ==
    \/ Arrive0
    \/ checkSerialUSB_idle
    \/ checkRTCMtoRadio_idle
    \/ checkRTCMtoRadio
    \/ checkRTCMtoRadio_heuristic
    \/ radioRtcmLEDtask

SpecRelay == InitRelay /\ [][NextRelay]_vars

---------------------------------------------------------------------------
(* The whole program: console, relay and indicator task. *)

\* Input streams fed while the console is used.
ConsoleStreams == {<<>>, <<PREAMBLE, 2, PREAMBLE, PREAMBLE, PREAMBLE, 2>>}

LineEndings == {<<CH_LF>>, <<CH_CR, CH_LF>>}

Init ==
    /\ sketch \in Sketches
    /\ stream \in ConsoleStreams
    /\ eol \in LineEndings
    /\ tbuf = ZeroType
    /\ InitProgram

Next ==
    \/ Arrive0
    \/ TypeLine
    \/ ArriveUsb
    \/ checkSerialUSB_idle
    \/ checkSerialUSB_char
    \/ checkSerialUSB_blank
    \/ checkSerialUSB
    \/ testRad_entered
    \/ testRad_char
    \/ testRad_sent
    \/ checkSerialMonitor_char
    \/ checkSerialMonitor
    \/ monTestRad_char
    \/ monTestRad_sent
    \/ testLEDr_char
    \/ testLEDr_blink
    \/ testLEDr_blinkDone
    \/ checkRTCMtoRadio_idle
    \/ checkRTCMtoRadio
    \/ checkRTCMtoRadio_heuristic
    \/ radioRtcmLEDtask

Spec == Init /\ [][Next]_vars

---------------------------------------------------------------------------
(* The v3_0_10 program with its console, fed a frame longer than the
   buffer. *)

InitLong ==
    /\ sketch = "v3_0_10"
    /\ stream = LongStream
    /\ eol = <<CH_LF>>
    /\ tbuf = ZeroType
    /\ InitProgram

NextLong ==
    \/ Arrive0
    \/ TypeLine
    \/ ArriveUsb
    \/ checkSerialUSB_idle
    \/ checkSerialUSB_char
    \/ checkSerialUSB_blank
    \/ checkSerialUSB
    \/ testRad_entered
    \/ testRad_char
    \/ testRad_sent
    \/ testLEDr_char
    \/ testLEDr_blink
    \/ testLEDr_blinkDone
    \/ checkRTCMtoRadio_idle
    \/ checkRTCMtoRadio
    \/ radioRtcmLEDtask

SpecLong == InitLong /\ [][NextLong]_vars

---------------------------------------------------------------------------
(* The relay of v0_1_0 (DougFoster_EVK_RTCM_relay.ino), which is to pulse
   the indicator by counting bytes. *)

PulseStream == [i \in 1..(2 * maxCount + PulseExtra) |-> SYNC_THRESHOLD]

\* checkRTCMtoRadio, v0_1_0.  count is an automatic variable: every call
\* starts it at 0, and what the call leaves in it is gone on return.
checkRTCMtoRadio_count ==
    /\ sketch = "v0_1_0" /\ RelayInLoop
    /\ Serial0Available
    /\ LET c     == Serial0Byte
           count == 0
       IN  /\ rd0' = rd0 + 1
           /\ tx1' = Append(tx1, c)
           /\ usbLog' = IF debugRad THEN Append(usbLog, <<"hex", <<c>>>>)
                         ELSE usbLog
           /\ IF count = maxCount
              THEN updateLED("2")
              ELSE UNCHANGED ledVars
    /\ loopPc' = "usb"
    /\ UNCHANGED <<sketch, stream, arr0, preamble, preambleCount, byteCount,
                   sentCount, rtcmSentence, msg_type, complete, flagVars,
                   command, posn, radioCommand, posnRad, blinkI, hc12Set,
                   envVars, mode, crashed, diagEver, tbuf>>

InitPulse ==
    /\ sketch = "v0_1_0"
    /\ stream = PulseStream
    /\ eol = <<CH_LF>>
    /\ tbuf = ZeroType
    /\ InitProgram

\* The indicator task is left out: startTasks suspends it, and it runs again
\* only when a relay step resumes it.
NextPulse ==
    \/ Arrive0
    \/ checkSerialUSB_idle
    \/ checkRTCMtoRadio_idle
    \/ checkRTCMtoRadio_count

SpecPulse == InitPulse /\ [][NextPulse]_vars

---------------------------------------------------------------------------
(* rtcm3GetMessageType applied to header buffers. *)

TypeBytes == {0, 19, 62, 63, 208, 240, 255}

TypeBuffers ==
    {b \in [0..4 -> TypeBytes \cup {PREAMBLE}] :
        /\ b[0] \in {PREAMBLE, 0, 255}
        /\ b[1] = 0
        /\ b[2] \in {0, 19}}

InitType ==
    /\ sketch = "v3_0_10"
    /\ stream = <<>>
    /\ eol = <<CH_LF>>
    /\ tbuf \in TypeBuffers
    /\ InitProgram

\* msg_type = rtcm3GetMessageType(rtcmSentence), on the buffer tbuf.
ParseType ==
    /\ msg_type = -1
    /\ msg_type' = rtcm3GetMessageType(tbuf)
    /\ UNCHANGED <<sketch, stream, arr0, rd0, tx1, preamble, preambleCount,
                   byteCount, sentCount, rtcmSentence, complete, ledVars,
                   flagVars, conVars, envVars, mode, loopPc, crashed,
                   diagEver, tbuf>>

NextType == ParseType

SpecType == InitType /\ [][NextType]_vars

---------------------------------------------------------------------------
(* Properties. *)

Drained == arr0 = Len(stream) /\ rd0 = arr0

PreamblePositions(s) == {i \in DOMAIN s : s[i] = PREAMBLE}
FrameCount(s) == Cardinality(PreamblePositions(s))

\* s is a run of frames, each a preamble, then a byte below the threshold,
\* then bytes that are not the preamble.
WellFormedFrames(s) ==
    /\ Len(s) > 0 => s[1] = PREAMBLE
    /\ \A i \in PreamblePositions(s) : i < Len(s) /\ s[i + 1] < SYNC_THRESHOLD

\* s holds one preamble and no other.
NeverClosing(s) == FrameCount(s) = 1

\* C1: with no modal diagnostic active, the bytes written to the output link
\* are a prefix of the bytes that arrived on the input link, and are all of
\* them once the input is drained.
C1_ByteFidelity ==
    ~diagEver =>
        /\ IsPrefix(tx1, stream)
        /\ Drained => tx1 = stream

\* C2: for a stream with one preamble and never another, every byte read is
\* forwarded, no pulse is requested and the device never goes down.
C2_NeverClosingDegrades ==
    (sketch = "v3_0_10" /\ NeverClosing(stream)) =>
        /\ tx1 = SubSeq(stream, 1, rd0)
        /\ pulseReqs = 0
        /\ ~crashed

C4_BufferCountsFrames ==
    (sketch = "v3_0_10" /\ WellFormedFrames(stream) /\ Drained) =>
        complete = FrameCount(stream)

\* C5: rtcm3GetMessageType returns (byte3 << 4) | (byte4 >> 4), a value in
\* 0..4095, for a buffer that starts with 0xD3, and 0 for any other buffer.
C5_TypeExtraction ==
    msg_type # -1 =>
        /\ msg_type \in 0..4095
        /\ tbuf[0] = PREAMBLE => msg_type = tbuf[3] * 16 + (tbuf[4] \div 16)
        /\ tbuf[0] # PREAMBLE => msg_type = 0
        /\ (tbuf[0] = PREAMBLE /\ tbuf[3] = 62 /\ tbuf[4] = 208) => msg_type = 1005
        /\ (tbuf[0] = PREAMBLE /\ tbuf[3] = 63 /\ tbuf[4] = 240) => msg_type = 1023

C5_Witness ==
    /\ tbuf = [i \in 0..4 |-> <<PREAMBLE, 0, 19, 62, 208>>[i + 1]]
    /\ msg_type = 1005

\* C6: a pulse request that finds the indicator task running (not suspended)
\* changes nothing of the task or the indicator and is not remembered: the
\* task never switches the indicator on more often than it was resumed from
\* suspension.
C6_AtMostOnePulseInFlight ==
    /\ [](ledCycles <= effReqs)
    /\ [][(pulseReqs' = pulseReqs + 1 /\ ~taskSusp) =>
            /\ taskPc' = taskPc /\ taskSusp' = taskSusp
            /\ led' = led /\ ledCycles' = ledCycles /\ effReqs' = effReqs]_vars

C6_Witness ==
    /\ pulseReqs > effReqs
    /\ ~taskSusp /\ taskPc = "delay" /\ led = 1
    /\ ~crashed

\* C7: every pulse request that finds the task suspended yields exactly one
\* on-then-off cycle: whenever the task is suspended again it has switched
\* the indicator on once per such request and the indicator is off.
C7_OneCyclePerRequest ==
    (taskSusp /\ ~crashed) => (ledCycles = effReqs /\ led = 0)


\* The console is about to finish a token: the character it reads next ends
\* the line (v3_0_10: newline or carriage return with something buffered;
\* v0_1_2: newline, or any character once the buffer is full).
TokenEnds ==
    /\ ConsoleInLoop /\ usbRx # <<>>
    /\ IF sketch = "v3_0_10"
       THEN Head(usbRx) \in {CH_LF, CH_CR} /\ posn > 0
       ELSE Head(usbRx) = CH_LF \/ posn >= COMMAND_SIZE - 1

\* The token that is then dispatched.
PendingToken ==
    IF sketch = "v3_0_10" THEN CStr(command)
    ELSE CStr([command EXCEPT ![posn] = 0])

\* The step reads the character that ends the token.
DispatchStep == TokenEnds /\ usbRx' = Tail(usbRx)

\* A non-empty token that is no command, no escape and no listing request.
Unrecognized(tok) ==
    /\ Len(tok) > 0
    /\ MatchCommand(tok) = NO_MATCH
    /\ ~HasChar(tok, EXIT_TEST)
    /\ ~HasChar(tok, CH_QUERY)

\* C8: outside the modal tests no step of the main loop sleeps: a relay step
\* (pulse request included) hands control straight back to the loop, a relay
\* step is enabled whenever a byte waits while the indicator task holds the
\* indicator on, and the program is inside delay() only in the radio test or
\* the indicator test.
C8_LoopNeverSleeps ==
    /\ [](mode \notin {"loop", "led", "ledBlink", "rad"} =>
            \/ mode \in {"radEnter", "radSent"} /\ testRad
            \/ mode = "ledDelay" /\ testLEDr)
    /\ []((/\ mode = "loop" /\ loopPc = "rtcm" /\ Serial0Available
           /\ ~taskSusp /\ taskPc = "delay" /\ led = 1)
            => ENABLED (checkRTCMtoRadio \/ checkRTCMtoRadio_heuristic))
    /\ [][(mode = "loop" /\ loopPc = "rtcm" /\ rd0' # rd0)
            => (mode' = "loop" /\ loopPc' = "usb")]_vars

\* A byte has been forwarded while the indicator task was holding the
\* indicator on for the second frame-complete event.
C8_Witness ==
    /\ sketch = "v3_0_10" /\ ~diagEver /\ ~crashed
    /\ led = 1 /\ ~taskSusp /\ taskPc = "delay"
    /\ complete = 2 /\ rd0 = 6 /\ Len(tx1) = 6

\* C9: dispatching a non-empty token that matches no command leaves the four
\* flags unchanged, prints exactly one error message and then the command
\* list, and goes on with the main loop.
C9_UnrecognizedNonFatal ==
    [][(DispatchStep /\ Unrecognized(PendingToken)) =>
          /\ UNCHANGED flagVars
          /\ usbLog' = usbLog \o <<MsgInvalid(PendingToken), Msg("list")>>
          /\ mode' = "loop"]_vars

\* C10: dispatching the token "!" leaves debugRad false (all four flags in
\* checkSerialUSB), prints the one escape message, enters no modal test and
\* hands control to the relay step of the same loop pass.
C10_EscapeClears ==
    [][(DispatchStep /\ PendingToken = <<EXIT_TEST>>) =>
          /\ ~debugRad'
          /\ sketch = "v3_0_10" => (~testLEDr' /\ ~testRad' /\ ~reset')
          /\ usbLog' = Append(usbLog, Msg("allOff"))
          /\ mode' = "loop" /\ loopPc' = "rtcm"]_vars

\* debugRad was switched on, and the next line was the escape.
C10_Witness ==
    /\ sketch = "v3_0_10"
    /\ Len(usbLog) >= 2
    /\ usbLog[Len(usbLog) - 1] = <<"enabled", CmdDebugRad>>
    /\ usbLog[Len(usbLog)] = Msg("allOff")
    /\ ~debugRad /\ mode = "loop" /\ loopPc = "rtcm"

\* Everything the operator has typed has been read by the program.
AllConsumed == usbRx = <<>> /\ usbWire = <<>>

\* Message m is printed before message n.
PrintedInOrder(m, n) ==
    \E i, j \in 1..Len(usbLog) : i < j /\ usbLog[i] = m /\ usbLog[j] = n

\* C11: the line "testLEDr" sent twice in succession from the main loop
\* leaves testLEDr at its original value (false), and the console has
\* reported "testLEDr enabled." and then "testLEDr disabled.".
C11_ToggleTwiceRestores ==
    (/\ sketch = "v3_0_10" /\ ~crashed
     /\ lines = <<CmdTestLEDr, CmdTestLEDr>> /\ AllConsumed) =>
        /\ ~testLEDr
        /\ PrintedInOrder(MsgToggle([AllOff EXCEPT !.testLEDr = TRUE], 0),
                          MsgDisabled(0))

\* C12: once every line typed so far has been handled and the console is
\* back in the main loop, the command buffer is empty and its write position
\* is 0, so the next line starts in a clean buffer.
C12_BufferCleanForNextLine ==
    (sketch = "v3_0_10" /\ ~crashed /\ mode = "loop" /\ AllConsumed) =>
        (posn = 0 /\ command = ZeroCommand)

\* C13: the write position of the console command buffer (and of the radio
\* command buffer) never exceeds 10, whatever is typed, so every write
\* buf[posn] lands inside the 11-element buffer.
C13_CommandBufferBounded ==
    posn <= COMMAND_SIZE - 1 /\ posnRad <= COMMAND_SIZE - 1

\* The console step that dispatches the token "reset".
ResetDispatch ==
    TokenEnds /\ PendingToken = CmdReset /\ Len(usbRx') < Len(usbRx)

\* C14: dispatching "reset" restarts the device in that same step: the
\* toggle and the restart are announced, no modal test is entered, nothing
\* is relayed or written to the radio, and the program is at the top of the
\* loop with all four flags false and the synchronizer and the command
\* buffer in their initial state.
C14_ResetRestartsAtOnce ==
    [][ResetDispatch =>
          /\ ~testLEDr' /\ ~testRad' /\ ~debugRad' /\ ~reset'
          /\ usbLog' = usbLog \o <<MsgToggle([AllOff EXCEPT !.reset = TRUE], 3),
                                   Msg("restarting")>>
          /\ mode' = "loop" /\ loopPc' = "usb"
          /\ tx1' = tx1 /\ hc12Set' = 1
          /\ preamble' = 0 /\ preambleCount' = 0 /\ byteCount' = 0
          /\ rtcmSentence' = ZeroSentence
          /\ command' = ZeroCommand /\ posn' = 0]_vars

\* debugRad was switched on, then "reset" restarted the device.
C14_Witness ==
    /\ Len(usbLog) = 3
    /\ usbLog[1] = MsgToggle([AllOff EXCEPT !.debugRad = TRUE], 2)
    /\ usbLog[2] = MsgToggle([AllOff EXCEPT !.reset = TRUE], 3)
    /\ usbLog[3] = Msg("restarting")
    /\ ~debugRad /\ ~reset /\ mode = "loop" /\ loopPc = "usb"
    /\ command = ZeroCommand /\ posn = 0

\* C15: while the indicator test or the radio test is active no relay step
\* can run, no byte is taken from the input link, and the output link
\* receives nothing but the commands the radio test sends.
C15_ModalBlocksRelay ==
    /\ [](mode # "loop" =>
            ~ENABLED (checkRTCMtoRadio \/ checkRTCMtoRadio_heuristic
                        \/ checkRTCMtoRadio_idle))
    /\ [][mode # "loop" =>
            /\ rd0' = rd0 \/ (crashed' /\ ~crashed)
            /\ \/ tx1' = tx1
               \/ /\ mode = "rad" /\ mode' = "radSent"
                  /\ tx1' = tx1 \o (IF sketch = "v3_0_10" THEN CStr(command)
                                    ELSE CStr(radioCommand))]_vars

\* Bytes wait on the input link, unread, while the radio test is active.
C15_Witness ==
    /\ mode = "rad" /\ testRad
    /\ rd0 > 0 /\ arr0 - rd0 = MaxPending

\* The radio test holds the loop task.
RadioModal == mode \in {"radEnter", "rad", "radSent"}

\* C16: HC12_SET is LOW exactly while the radio test is active, which is
\* exactly while testRad is set; leaving the test with `!` puts the line back
\* to HIGH and clears testRad in one step; every relay write of an input byte
\* to the output link happens with HC12_SET HIGH.
C16_ControlLineTracksRadioTest ==
    /\ []((hc12Set = 0 <=> RadioModal) /\ (testRad <=> RadioModal))
    /\ [][(RadioModal /\ ~RadioModal') => (hc12Set' = 1 /\ ~testRad')]_vars
    /\ [][(rd0' = rd0 + 1) => (hc12Set = 1 /\ hc12Set' = 1)]_vars

\* The radio test was entered and left with `!`, and the relay forwards a
\* byte again with the line HIGH.
C16_Witness ==
    /\ ~crashed /\ mode = "loop" /\ hc12Set = 1 /\ ~testRad
    /\ \E i \in 1..Len(usbLog) : usbLog[i] = Msg("radOff")
    /\ Len(tx1) > 1 /\ tx1[Len(tx1)] = PREAMBLE /\ rd0 > 0

\* The step forwards one input byte: a relay step that found a byte.
RelayStep ==
    /\ RelayInLoop /\ Serial0Available
    /\ tx1' = Append(tx1, Serial0Byte)

\* The step is one of the indicator task's: the task moves on and nothing
\* is taken from either link.
TaskStep == taskPc' # taskPc /\ UNCHANGED <<rd0, usbRx>>

\* C17: every relay step and every step of the indicator task leaves
\* testLEDr, testRad, debugRad, reset and the console's command buffer
\* unchanged.
C17_FlagsOnlyByConsole ==
    [][(RelayStep \/ TaskStep)
          => UNCHANGED <<testLEDr, testRad, debugRad, reset, command, posn>>]_vars

\* C18: the v0_1_0 relay requests the indicator pulse once for every 500
\* bytes relayed: after n bytes forwarded, floor(n / 500) pulses have been
\* requested.
C18_PulsePerMaxCount ==
    sketch = "v0_1_0" => pulseReqs = Len(tx1) \div maxCount

\* The relay step of v3_0_10 executes rtcmSentence[byteCount] = serialChar.
CaptureWrite ==
    /\ sketch = "v3_0_10" /\ RelayStep
    /\ NextPreamble(preamble, Serial0Byte) = 1

\* C19: on every input stream, every write rtcmSentence[byteCount] of the
\* buffer-and-inspect relay happens with byteCount < 300.
C19_CaptureInsideBuffer ==
    [][CaptureWrite => byteCount < RTCM_SIZE]_vars

\* The bytes the relay has read from the input link.
Observed == SubSeq(stream, 1, rd0)

\* A frame is open in s: the preambles pair up as opening and closing, and
\* the last one has no partner.
FrameOpen(s) == FrameCount(s) % 2 = 1

\* The bytes of s from its last preamble on, that preamble included.
SinceOpening(s) ==
    LET last == CHOOSE i \in PreamblePositions(s) :
                    \A j \in PreamblePositions(s) : j <= i
    IN  Len(s) - last + 1

\* The step is a frame-complete event.
FrameEvent == complete' = complete + 1

\* The device has not restarted since the stream began, so Observed is what
\* the running program has seen.
NoRestart ==
    ~crashed /\ \A i \in 1..Len(usbLog) : usbLog[i] # Msg("restarting")

\* C20: between the relay steps of v3_0_10 the phase is NONE (0) or
\* PREAMBLE_SEEN (1); in NONE byteCount is 0; in PREAMBLE_SEEN byteCount is
\* the number of bytes observed since the opening preamble, that byte
\* included; a relay step takes the state back to NONE/0 at a frame-complete
\* event and at no other time, and the count the event reports is the number
\* of bytes from the opening preamble (included) to the closing one
\* (excluded).
C20_SynchronizerState ==
    /\ [](sketch = "v3_0_10" =>
            /\ preamble \in {0, 1}
            /\ preamble = 0 => byteCount = 0
            /\ NoRestart =>
                 /\ preamble = 1 <=> FrameOpen(Observed)
                 /\ preamble = 1 => byteCount = SinceOpening(Observed))
    /\ [][(sketch = "v3_0_10" /\ RelayStep) =>
            /\ (preamble = 1 /\ preamble' = 0) <=> FrameEvent
            /\ FrameEvent => /\ NoRestart => byteCount = SinceOpening(Observed)
                             /\ byteCount' = 0]_vars

\* The relay step of v0_1_2 reads a byte below the threshold, and the byte it
\* read in the step before was the preamble: the preamble sequence has just
\* been observed.
PreambleSequenceObserved ==
    /\ sketch = "v0_1_2" /\ RelayStep
    /\ rd0 >= 1 /\ stream[rd0] = PREAMBLE
    /\ Serial0Byte < SYNC_THRESHOLD

\* C21: in the heuristic relay, whatever was observed before, observing 0xD3
\* followed by a byte < 3 produces a frame-complete event and puts
\* preambleCount and byteCount back to 0.
C21_SelfHealingSync ==
    [][PreambleSequenceObserved =>
          (FrameEvent /\ preambleCount' = 0 /\ byteCount' = 0)]_vars

\* The step is a call of the relay step that returns to loop() (or ends in
\* a restart).
RelayCall == RelayInLoop /\ loopPc' = "usb"

\* C22: a relay step consumes at most one input byte and writes exactly the
\* byte it read before it returns; between steps as many bytes have been
\* written as read, and the output is the input read so far, in order.
C22_OneByteInOneByteOut ==
    /\ [][RelayCall =>
            IF Serial0Available
            THEN /\ tx1' = Append(tx1, stream[rd0 + 1])
                 /\ rd0' = rd0 + 1 \/ (crashed' /\ ~crashed)
            ELSE tx1' = tx1 /\ rd0' = rd0]_vars
    /\ []((NoRestart /\ ~diagEver) => (Len(tx1) = rd0 /\ tx1 = Observed))

\* Between two steps, with bytes read and written and more waiting.
C22_Witness ==
    /\ NoRestart /\ ~diagEver /\ loopPc = "usb"
    /\ rd0 = 3 /\ Len(tx1) = 3 /\ arr0 > rd0
    /\ tx1 = <<PREAMBLE, SYNC_THRESHOLD - 1, SYNC_THRESHOLD>>

\* The step is a call of the console step from loop() that finds no byte.
ConsoleCallIdle == ConsoleInLoop /\ usbRx = <<>> /\ loopPc' = "rtcm"

\* C23: a relay step that finds no byte on the input link returns at once
\* and leaves the output link, the synchronizer, the indicator task and the
\* flags as they were; a console step that finds no console byte changes
\* nothing either.
C23_NoDataNoOp ==
    /\ []((RelayInLoop /\ ~Serial0Available) => ENABLED checkRTCMtoRadio_idle)
    /\ []((ConsoleInLoop /\ usbRx = <<>>) => ENABLED checkSerialUSB_idle)
    /\ [][(RelayCall /\ ~Serial0Available) =>
            UNCHANGED <<relayVars, ledVars, flagVars, conVars, mode, crashed>>]_vars
    /\ [][ConsoleCallIdle =>
            UNCHANGED <<relayVars, ledVars, flagVars, conVars, mode, crashed>>]_vars

\* The relay step is called in the middle of a frame, debug output on, with
\* no byte waiting and more of the stream still to come.
C23_Witness ==
    /\ sketch = "v3_0_10" /\ RelayInLoop /\ ~Serial0Available
    /\ arr0 < Len(stream) /\ usbRx = <<>>
    /\ preamble = 1 /\ byteCount = 2 /\ debugRad

---------------------------------------------------------------------------
(* The two steps of loop() in v3_0_10 as functions of the state they share
   with each other, for comparing the two orders of calling them. *)

\* What the claim compares, with the input waiting on the two links.
Cur ==
    [flags |-> Flags, command |-> command, posn |-> posn,
     preamble |-> preamble, byteCount |-> byteCount,
     rtcmSentence |-> rtcmSentence, tx1 |-> tx1, pulseReqs |-> pulseReqs,
     usbRx |-> usbRx, rd0 |-> rd0, arr0 |-> arr0]

\* The state after a restart: setup() runs, bytes waiting are lost.
Booted(s) ==
    [s EXCEPT !.flags = AllOff, !.command = ZeroCommand, !.posn = 0,
              !.preamble = 0, !.byteCount = 0, !.rtcmSentence = ZeroSentence,
              !.usbRx = <<>>, !.rd0 = s.arr0]

\* A faulty variant: the debug branch returns after printing, before the
\* pulse request and the reset of the synchronizer.
RelayEffect_debugReturns(s, ub) ==
    IF s.arr0 - s.rd0 <= 0 THEN s
    ELSE LET c  == stream[s.rd0 + 1]
             p1 == NextPreamble(s.preamble, c)
             s1 == [s EXCEPT !.tx1 = Append(@, c), !.rd0 = @ + 1]
         IN  IF p1 = 1
             THEN IF s.byteCount < RTCM_SIZE
                  THEN [s1 EXCEPT !.preamble = 1,
                                  !.rtcmSentence = [@ EXCEPT ![s.byteCount] = c],
                                  !.byteCount = (@ + 1) % UINT16]
                  ELSE IF ub = "panic"
                  THEN Booted([s EXCEPT !.tx1 = Append(@, c)])
                  ELSE [s1 EXCEPT !.preamble = 1,
                                  !.byteCount = (@ + 1) % UINT16]
             ELSE IF p1 = 2
             THEN IF s.flags.debugRad
                  THEN [s1 EXCEPT !.preamble = 2]
                  ELSE [s1 EXCEPT !.preamble = 0, !.byteCount = 0,
                                  !.rtcmSentence = ZeroSentence,
                                  !.pulseReqs = @ + 1]
             ELSE s1

\* checkRTCMtoRadio applied to s; ub is what a write outside rtcmSentence
\* does, if the step makes one.
RelayEffect(s, ub) ==
    IF s.arr0 - s.rd0 <= 0 THEN s
    ELSE LET c  == stream[s.rd0 + 1]
             p1 == NextPreamble(s.preamble, c)
             s1 == [s EXCEPT !.tx1 = Append(@, c), !.rd0 = @ + 1]
         IN  IF p1 = 1
             THEN IF s.byteCount < RTCM_SIZE
                  THEN [s1 EXCEPT !.preamble = 1,
                                  !.rtcmSentence = [@ EXCEPT ![s.byteCount] = c],
                                  !.byteCount = (@ + 1) % UINT16]
                  ELSE IF ub = "panic"
                  THEN Booted([s EXCEPT !.tx1 = Append(@, c)])
                  ELSE [s1 EXCEPT !.preamble = 1,
                                  !.byteCount = (@ + 1) % UINT16]
             ELSE IF p1 = 2
             THEN [s1 EXCEPT !.preamble = 0, !.byteCount = 0,
                             !.rtcmSentence = ZeroSentence,
                             !.pulseReqs = @ + 1]
             ELSE s1

\* The console step applied to s would neither restart the device nor enter
\* a modal test.
ConsoleStays(s, ub) ==
    \/ s.usbRx = <<>>
    \/ /\ s.usbRx # <<>> /\ Head(s.usbRx) \notin {CH_LF, CH_CR}
       /\ s.posn < COMMAND_SIZE \/ ub # "panic"
    \/ /\ s.usbRx # <<>> /\ Head(s.usbRx) \in {CH_LF, CH_CR}
       /\ \/ s.posn = 0
          \/ LET r == DispatchUSB(CStr(s.command), s.flags)
             IN  \/ r.which = NO_MATCH
                 \/ /\ r.which # 3
                    /\ ~r.flags.testRad /\ ~r.flags.testLEDr

\* A faulty variant: a dispatched line also drops the frame in progress.
ConsoleEffect_resetsSync(s, ub) ==
    IF s.usbRx = <<>> THEN s
    ELSE IF Head(s.usbRx) \notin {CH_LF, CH_CR}
    THEN [s EXCEPT !.usbRx = Tail(@),
                   !.command = Store(s.command, s.posn, Head(s.usbRx),
                                     IF s.posn < COMMAND_SIZE THEN "stored"
                                     ELSE ub),
                   !.posn = @ + 1]
    ELSE [s EXCEPT !.usbRx = Tail(@), !.command = ZeroCommand, !.posn = 0,
                   !.flags = IF s.posn = 0 THEN @
                             ELSE DispatchUSB(CStr(s.command), @).flags,
                   !.preamble = 0, !.byteCount = 0]

\* checkSerialUSB applied to s, where ConsoleStays(s, ub).
ConsoleEffect(s, ub) ==
    IF s.usbRx = <<>> THEN s
    ELSE IF Head(s.usbRx) \notin {CH_LF, CH_CR}
    THEN [s EXCEPT !.usbRx = Tail(@),
                   !.command = Store(s.command, s.posn, Head(s.usbRx),
                                     IF s.posn < COMMAND_SIZE THEN "stored"
                                     ELSE ub),
                   !.posn = @ + 1]
    ELSE [s EXCEPT !.usbRx = Tail(@), !.command = ZeroCommand, !.posn = 0,
                   !.flags = IF s.posn = 0 THEN @
                             ELSE DispatchUSB(CStr(s.command), @).flags]

UBOutcomes == {"elsewhere", "panic"}

\* The step is a console step of v3_0_10 that returns to loop().
ConsoleCallStays ==
    /\ sketch = "v3_0_10" /\ ConsoleInLoop
    /\ mode' = "loop" /\ loopPc' = "rtcm"

\* C24: in v3_0_10, for every state of the main loop and every input waiting
\* on the two links, if the console step neither enters a modal test nor
\* restarts, then console step then relay step, and relay step then console
\* step, end in the same flags, command buffer, synchronizer state, output
\* bytes and pulse requests.  (The two functions compared are what the two
\* steps do: second and third conjunct.)
C24_OrderIndependence ==
    /\ []((sketch = "v3_0_10" /\ mode = "loop") =>
            \A uc, ur \in UBOutcomes :
                (/\ ConsoleStays(Cur, uc)
                 /\ ConsoleStays(RelayEffect(Cur, ur), uc)) =>
                    RelayEffect(ConsoleEffect(Cur, uc), ur)
                        = ConsoleEffect(RelayEffect(Cur, ur), uc))
    /\ [][(sketch = "v3_0_10" /\ RelayCall) =>
            \E ur \in UBOutcomes : Cur' = RelayEffect(Cur, ur)]_vars
    /\ [][ConsoleCallStays =>
            \E uc \in UBOutcomes :
                ConsoleStays(Cur, uc) /\ Cur' = ConsoleEffect(Cur, uc)]_vars

\* The line end of "debugRad" waits on the console while the 0xD3 that closes
\* a frame waits on the input link: both steps have work to do.
C24_Witness ==
    /\ sketch = "v3_0_10" /\ ConsoleInLoop
    /\ usbRx # <<>> /\ Head(usbRx) = CH_LF /\ CStr(command) = CmdDebugRad
    /\ Serial0Available /\ preamble = 1 /\ Serial0Byte = PREAMBLE

---------------------------------------------------------------------------

\* The step is a console step: it takes a character from the console, in
\* loop() or inside a modal test.
ConsoleStep ==
    /\ Len(usbRx') < Len(usbRx)
    /\ mode = "loop" => loopPc = "usb"

\* The step carries out the reset command.
CommandedRestart ==
    usbLog' # usbLog /\ usbLog'[Len(usbLog')] = Msg("restarting")

\* C25: a console step taken outside the radio test (the reset command's
\* restart of the device apart) never changes the synchronizer state and
\* never writes a byte to the output link.
C25_ConsoleLeavesSynchronizer ==
    [][(ConsoleStep /\ ~RadioModal /\ ~RadioModal' /\ ~CommandedRestart) =>
          UNCHANGED <<preamble, preambleCount, byteCount, rtcmSentence, tx1>>]_vars

---------------------------------------------------------------------------

\* A pulse is in flight: the indicator task has been resumed and has not yet
\* suspended itself again.
PulseInFlight == ~taskSusp

\* The step restarts the device.
Restarts == CommandedRestart \/ (crashed' /\ ~crashed)

\* C26: under every interleaving of the indicator task with the main loop,
\* the main loop does not drive the indicator output itself (updateLED('0')
\* or updateLED('1')) while a pulse is in flight.
C26_LoopKeepsOffTheLed ==
    [][(ConsoleStep /\ PulseInFlight /\ ~Restarts) => led' = led]_vars

---------------------------------------------------------------------------

\* C27: dispatch is a case-sensitive exact match: a dispatched token changes
\* a flag only if it is exactly a command name (that flag is toggled and no
\* other; reset restarts the device, which leaves every flag off) or exactly
\* "!"; any other token, one that merely contains '!' included, changes no
\* flag.
C27_ExactMatchDispatch ==
    [][DispatchStep =>
          LET tok == PendingToken
              w   == MatchCommand(tok)
          IN  CASE w \in 0..2 -> Flags' = Toggle(Flags, w)
                [] w = 3 -> Flags' = AllOff
                [] w = NO_MATCH /\ tok = <<EXIT_TEST>> -> TRUE
                [] OTHER -> Flags' = Flags]_vars

---------------------------------------------------------------------------

LedModal == mode \in {"led", "ledBlink", "ledDelay"}

\* The step reads a sub-command inside the indicator test.
LedSubCommand == mode = "led" /\ Len(usbRx') < Len(usbRx)

\* The last n entries of the console output.
LastPrinted(n) ==
    IF Len(usbLog) < n THEN <<>>
    ELSE SubSeq(usbLog, Len(usbLog) - n + 1, Len(usbLog))

\* What sub-command 2 prints from start to end.
BlinkRun == <<Msg("led2")>> \o [i \in 1..BLINKS |-> Msg("blink")]

\* C28: in the indicator test sub-command 0 drives the indicator off, 1
\* drives it on, 2 issues exactly 5 pulse requests, one per pass, each after
\* the pulse before it has finished, '!' clears testLEDr and returns to the
\* main loop, and any other character is reported and leaves the test active
\* with testLEDr still true.
C28_IndicatorTest ==
    /\ [][LedSubCommand =>
            LET c == Head(usbRx)
            IN  CASE c = 48 -> led' = 0 /\ mode' = "led" /\ testLEDr'
                               /\ pulseReqs' = pulseReqs
                  [] c = 49 -> led' = 1 /\ mode' = "led" /\ testLEDr'
                               /\ pulseReqs' = pulseReqs
                  [] c = 50 -> mode' = "ledBlink" /\ testLEDr'
                               /\ usbLog' = Append(usbLog, Msg("led2"))
                               /\ pulseReqs' = pulseReqs
                  [] c = EXIT_TEST -> ~testLEDr' /\ mode' = "loop"
                                      /\ UNCHANGED <<led, pulseReqs>>
                  [] OTHER -> /\ usbLog' = Append(usbLog, Msg("ledHelp"))
                              /\ mode' = "led" /\ testLEDr /\ testLEDr'
                              /\ UNCHANGED <<led, pulseReqs>>]_vars
    /\ [][LedModal =>
            /\ pulseReqs' \in {pulseReqs, pulseReqs + 1}
            /\ pulseReqs' = pulseReqs + 1 <=>
                  usbLog' = Append(usbLog, Msg("blink"))
            /\ pulseReqs' = pulseReqs + 1 =>
                  (mode = "ledBlink" /\ (blinkI >= 1 => taskSusp))]_vars
    /\ [][(mode = "ledDelay" /\ mode' = "led") =>
            LastPrinted(BLINKS + 1) = BlinkRun]_vars
    /\ [](LedModal => testLEDr)

\* Sub-command 2 has run to its end and the test is still active.
C28_Witness ==
    /\ mode = "led" /\ testLEDr
    /\ LastPrinted(BLINKS + 1) = BlinkRun
    /\ pulseReqs >= BLINKS

---------------------------------------------------------------------------

\* The step sends a command to the radio: the radio test has read the
\* newline of a line typed inside it.
RadioSend ==
    /\ mode = "rad" /\ mode' = "radSent"
    /\ lines[Len(lines)] # CmdTestRad

\* C29: in the radio test the bytes written to the output link on a line
\* terminator are exactly the characters typed on that line, in order and
\* unmodified, for every typed line of up to 10 characters.
C29_RadioLineVerbatim ==
    [][(RadioSend /\ Len(lines[Len(lines)]) <= COMMAND_SIZE - 1) =>
          tx1' = tx1 \o lines[Len(lines)]]_vars

---------------------------------------------------------------------------

\* The main loop reads a line terminator with nothing buffered before it.
EmptyLineEnd ==
    /\ ConsoleInLoop /\ usbRx # <<>> /\ posn = 0
    /\ Head(usbRx) = CH_LF \/ (sketch = "v3_0_10" /\ Head(usbRx) = CH_CR)
    /\ Len(usbRx') < Len(usbRx)

\* C30: an empty console line, the '\n' of a "\r\n" pair included, produces
\* no error message, no command listing and no flag change.
C30_EmptyLineSilent ==
    [][EmptyLineEnd => (usbLog' = usbLog /\ UNCHANGED flagVars)]_vars

---------------------------------------------------------------------------

\* C31: whenever the main loop runs with no modal test active, and so
\* whenever a relay step executes, testLEDr, testRad and reset are false:
\* debugRad is the only flag that can be true while bytes are relayed; and
\* testLEDr and testRad are never both true.
C31_OnlyDebugWhileRelaying ==
    /\ [](mode = "loop" => (~testLEDr /\ ~testRad /\ ~reset))
    /\ [](~(testLEDr /\ testRad))
    /\ [][RelayCall => (~testLEDr /\ ~testRad /\ ~reset)]_vars

\* A relay step is about to forward a byte in the middle of the stream,
\* with debugRad on.
C31_Witness ==
    /\ RelayInLoop /\ Serial0Available /\ debugRad
    /\ rd0 > 0 /\ ~crashed

---------------------------------------------------------------------------
(* C32: the pending buffer holds the current frame and zeros. *)

\* The bytes captured since the opening preamble, as they were read from
\* Serial0, followed by zeros: what rtcmSentence holds if nothing of an
\* earlier frame is left in it.
CapturedPadded ==
    [i \in 0..(RTCM_SIZE - 1) |->
        IF i < byteCount THEN stream[rd0 - byteCount + 1 + i] ELSE 0]

\* C32: with the buffer-and-inspect relay, between relay steps every
\* position of rtcmSentence at an index >= byteCount holds 0 and the
\* positions below byteCount hold the bytes captured for the open frame; so
\* the type code reported when a frame closes is computed from that frame's
\* bytes and zeros only, from zeros at bytes 3 and 4 when fewer than 5 bytes
\* were captured, and the buffer is all zeros again after the event.
C32_PendingBufferZeroFilled ==
    /\ [](sketch = "v3_0_10" =>
            \A i \in 0..(RTCM_SIZE - 1) :
                i >= byteCount => rtcmSentence[i] = 0)
    /\ [](sketch = "v3_0_10" =>
            \A i \in 0..(RTCM_SIZE - 1) : rtcmSentence[i] = CapturedPadded[i])
    /\ [][(sketch = "v3_0_10" /\ FrameEvent) =>
            /\ rtcmSentence' = ZeroSentence
            /\ debugRad =>
                 /\ msg_type' = rtcm3GetMessageType(CapturedPadded)
                 /\ byteCount < 5 =>
                      msg_type' = BitOr(ShiftLeft4(CapturedPadded[3]), 0)]_vars

\* Two frames have closed with debugRad on; the second one had a single
\* captured byte, after a first one of two bytes, and its type code was
\* computed from zero-filled positions.
C32_Witness ==
    /\ sketch = "v3_0_10" /\ debugRad /\ ~crashed
    /\ complete = 2 /\ msg_type = 0
    /\ byteCount = 0 /\ rtcmSentence = ZeroSentence

---------------------------------------------------------------------------
(* C33: the debug flag and the relay. *)

\* The state s with debugRad set to d and nothing else changed.
WithDebug(s, d) == [s EXCEPT !.flags.debugRad = d]

\* What the claim compares after a relay step of v3_0_10: the output link,
\* the synchronizer, the pulse requests and the read position of the input.
RelayView(s) ==
    [tx1 |-> s.tx1, preamble |-> s.preamble, byteCount |-> s.byteCount,
     rtcmSentence |-> s.rtcmSentence, pulseReqs |-> s.pulseReqs,
     rd0 |-> s.rd0]

\* The state checkRTCMtoRadio of v0_1_2 works on.
CurHeur ==
    [debugRad |-> debugRad, preambleCount |-> preambleCount,
     byteCount |-> byteCount, sentCount |-> sentCount, tx1 |-> tx1,
     pulseReqs |-> pulseReqs, rd0 |-> rd0, arr0 |-> arr0]

\* checkRTCMtoRadio of v0_1_2 applied to s: the debug branches only print.
HeurEffect(s) ==
    IF s.arr0 - s.rd0 <= 0 THEN s
    ELSE LET c   == stream[s.rd0 + 1]
             pc1 == HeurPreambleCount(s.preambleCount, c)
             s1  == [s EXCEPT !.tx1 = Append(@, c), !.rd0 = @ + 1,
                              !.byteCount = (@ + 1) % UINT16]
         IN  IF pc1 = 2
             THEN [s1 EXCEPT !.sentCount = @ + 1, !.pulseReqs = @ + 1,
                             !.byteCount = 0, !.preambleCount = 0]
             ELSE [s1 EXCEPT !.preambleCount = pc1]

\* The view of a v0_1_2 state without the debug flag.
HeurView(s) ==
    [preambleCount |-> s.preambleCount, byteCount |-> s.byteCount,
     sentCount |-> s.sentCount, tx1 |-> s.tx1, pulseReqs |-> s.pulseReqs,
     rd0 |-> s.rd0]

\* C33: diagnostics do not interfere with relaying.  From every state of the
\* main loop, the relay step taken with debugRad on and the relay step taken
\* with debugRad off (same input waiting, same outcome of an out-of-bounds
\* write) end with the same output bytes, synchronizer state and pulse
\* requests, in both sketches; so two runs on the same input that differ only
\* in debugRad agree on them after every step.  (The functions compared are
\* what the relay steps do: third and fourth conjunct.)
C33_DebugDoesNotInterfere ==
    /\ []((sketch = "v3_0_10" /\ mode = "loop") =>
            \A ur \in UBOutcomes :
                RelayView(RelayEffect(WithDebug(Cur, TRUE), ur))
                    = RelayView(RelayEffect(WithDebug(Cur, FALSE), ur)))
    /\ []((sketch = "v0_1_2" /\ mode = "loop") =>
            HeurView(HeurEffect([CurHeur EXCEPT !.debugRad = TRUE]))
                = HeurView(HeurEffect([CurHeur EXCEPT !.debugRad = FALSE])))
    /\ [][(sketch = "v3_0_10" /\ RelayCall) =>
            \E ur \in UBOutcomes : Cur' = RelayEffect(Cur, ur)]_vars
    /\ [][(sketch = "v0_1_2" /\ RelayCall) =>
            CurHeur' = HeurEffect(CurHeur)]_vars

\* With debugRad on, the relay step of v3_0_10 is about to read the 0xD3
\* that closes a frame: the step that prints the diagnostics.
C33_Witness ==
    /\ sketch = "v3_0_10" /\ RelayInLoop /\ debugRad
    /\ Serial0Available /\ preamble = 1 /\ Serial0Byte = PREAMBLE
    /\ byteCount = 2

---------------------------------------------------------------------------

\* C34: whenever the main loop runs with no modal test active and the
\* indicator task is suspended (no pulse in flight), the indicator output is
\* off; so it is off after any indicator-test sub-commands followed by the
\* "!" exit.
C34_IdleIndicatorOff ==
    [](((sketch = "v3_0_10" /\ mode = "loop" /\ ~PulseInFlight) => led = 0))

---------------------------------------------------------------------------

\* The console characters a step takes out of the UART, read or dropped.
Consumed == SubSeq(usbRx, 1, Len(usbRx) - Len(usbRx'))

\* C35: inside the indicator test, whatever the line ending and the arrival
\* timing, a step that takes a "!" from the console (the first one received
\* included) ends the modal and clears testLEDr: a "!" is never consumed
\* without effect by the read that drops the character after a sub-command.
C35_ExitNeverSwallowed ==
    [][(LedSubCommand /\ \E i \in DOMAIN Consumed : Consumed[i] = EXIT_TEST) =>
          (~testLEDr' /\ mode' = "loop")]_vars

===========================================================================
